---- MODULE Spec2Model ----
(***************************************************************************)
(* Model of .github/scripts/ai_agent.py: main, get_gcp_auth_session,       *)
(* call_llm and parse_and_write_files.                                     *)
(*                                                                         *)
(* Text is a sequence of tokens.  A token is one of the literal strings    *)
(* the script looks for ("---FILE_SEPARATOR---", "#", "<!--",              *)
(* "FILE_PATH:", "-->", the three-backtick fence), a whitespace character  *)
(* (" " or "\n"), or a run of other non-whitespace characters.  Python's   *)
(* str.split, str.strip, startswith/endswith/find, slicing and re.search   *)
(* are computed on these sequences the way the interpreter computes them   *)
(* on characters.                                                          *)
(***************************************************************************)
EXTENDS Integers, Sequences, FiniteSets, TLC

VARIABLES
    pc,                       \* position of the process
    round,                    \* 1: application code, 2: unit tests
    env,                      \* ISSUE_TITLE, ISSUE_BODY, GCP_PROJECT_ID
    session,                  \* "none" | "acquired" | "failed"
    posts,                    \* POST requests issued
    prompts,                  \* prompts sent, in order
    replies,                  \* HTTP replies received, in order
    response_text,            \* argument of the running parse_and_write_files
    generated_code_response,  \* main's local of that name
    file_blocks,              \* parse_and_write_files' local of that name
    idx,                      \* index of the block the for loop is at
    files,                    \* the filesystem: path -> content
    attempts,                 \* blocks that reached the try: of line 108
    warnings,                 \* "Warning: Could not find FILE_PATH" lines printed
    events,                   \* calls made by main, in order
    exitStatus,               \* "none" | "0" | "1"
    successPrinted            \* "AI Agent finished successfully." printed

vars == <<pc, round, env, session, posts, prompts, replies, response_text,
          generated_code_response, file_blocks, idx, files, attempts, warnings,
          events, exitStatus, successPrinted>>

\* Largest number of delimiter-separated blocks in a modelled response.
MaxBlocks == 2

-----------------------------------------------------------------------------
(* Tokens *)

FILE_SEPARATOR == "---FILE_SEPARATOR---"
\* The three-backtick fence.
FENCE == "<fence>"
NL == "\n"
SP == " "

\* Python's str.isspace on the tokens of the model.
IsSpace(t) == t \in {SP, NL}

\* The empty file system and the empty text.
NoFiles == [p \in {} |-> <<>>]

-----------------------------------------------------------------------------
(* Python string operations *)

RECURSIVE LStrip(_)
LStrip(s) ==
    IF s = <<>> THEN <<>>
    ELSE IF IsSpace(Head(s)) THEN LStrip(Tail(s))
    ELSE s

RECURSIVE RStrip(_)
RStrip(s) ==
    IF s = <<>> THEN <<>>
    ELSE IF IsSpace(s[Len(s)]) THEN RStrip(SubSeq(s, 1, Len(s) - 1))
    ELSE s

\* str.strip()
Strip(s) == RStrip(LStrip(s))

\* str.find(t): 0-based index of the first occurrence, -1 when there is none.
Find(s, t) ==
    LET hits == {i \in 1..Len(s) : s[i] = t}
    IN  IF hits = {} THEN -1
        ELSE (CHOOSE i \in hits : \A j \in hits : i <= j) - 1

\* str.split(FILE_SEPARATOR)
RECURSIVE Split(_)
Split(s) ==
    LET i == Find(s, FILE_SEPARATOR)
    IN  IF i = -1 THEN <<s>>
        ELSE <<SubSeq(s, 1, i)>> \o Split(SubSeq(s, i + 2, Len(s)))

\* s[k:] for a 0-based k >= 0.
SliceFrom(s, k) == SubSeq(s, k + 1, Len(s))

-----------------------------------------------------------------------------
(* re.search(r"^\s*(?:#|<!--)\s*FILE_PATH:\s*(.*?)\s*(?:-->)?", block,      *)
(*           re.MULTILINE); positions are 1-based, end is exclusive.        *)

\* A greedy \s* starting at i: the first position at or after i that holds
\* no whitespace (Len(s) + 1 at the end of the text).
SkipSpace(s, i) ==
    LET stops == {j \in i..(Len(s) + 1) : j = Len(s) + 1 \/ ~IsSpace(s[j])}
    IN  CHOOSE j \in stops : \A k \in stops : j <= k

\* "^" under re.MULTILINE.
LineStart(s, p) == p = 1 \/ s[p - 1] = NL

\* What follows the group, \s*(?:-->)?, matches at every position: both of
\* its parts may match the empty string.
TailMatches(s, e) == TRUE

\* The lazy group (.*?) starting at g: the shortest run of non-newline
\* tokens after which the rest of the pattern matches.
LazyGroupEnd(s, g) ==
    LET lineEnd == CHOOSE e \in g..(Len(s) + 1) :
                       /\ \A k \in g..(e - 1) : s[k] # NL
                       /\ e = Len(s) + 1 \/ s[e] = NL
        ends == {e \in g..lineEnd : TailMatches(s, e)}
    IN  CHOOSE e \in ends : \A k \in ends : e <= k

\* The pattern tried at position p.
MatchAt(s, p) ==
    LET q == SkipSpace(s, p)
        r == SkipSpace(s, q + 1)
        g == SkipSpace(s, r + 1)
    IN  IF /\ LineStart(s, p)
           /\ q <= Len(s) /\ s[q] \in {"#", "<!--"}
           /\ r <= Len(s) /\ s[r] = "FILE_PATH:"
        THEN LET ge == LazyGroupEnd(s, g)
                 w == SkipSpace(s, ge)
                 e == IF w <= Len(s) /\ s[w] = "-->" THEN w + 1 ELSE w
             IN  [ok |-> TRUE, group1 |-> SubSeq(s, g, ge - 1), end |-> e]
        ELSE [ok |-> FALSE, group1 |-> <<>>, end |-> 0]

\* re.search: the match at the leftmost position where the pattern matches.
Search(s) ==
    LET P == {p \in 1..(Len(s) + 1) : MatchAt(s, p).ok}
    IN  IF P = {} THEN [ok |-> FALSE, group1 |-> <<>>, end |-> 0]
        ELSE MatchAt(s, CHOOSE p \in P : \A k \in P : p <= k)

-----------------------------------------------------------------------------
(* parse_and_write_files, lines 96-106 *)

\* file_path_str = match.group(1).strip()
FilePathStr(block) == Strip(Search(block).group1)

\* Lines 98-99: clean_block = block[match.end():].strip()
AfterMatch(block) == Strip(SubSeq(block, Search(block).end, Len(block)))

\* Lines 100-102: an opening fence goes with the rest of its line; find()
\* gives -1 when there is no newline, and then nothing is dropped.
DropOpeningFence(c) ==
    IF c # <<>> /\ Head(c) = FENCE THEN SliceFrom(c, Find(c, NL) + 1) ELSE c

\* Lines 103-104: a closing fence loses its three characters.
DropClosingFence(c) ==
    IF c # <<>> /\ c[Len(c)] = FENCE THEN SubSeq(c, 1, Len(c) - 1) ELSE c

\* Line 106: content = clean_block.strip()
Content(block) == Strip(DropClosingFence(DropOpeningFence(AfterMatch(block))))

\* pathlib.Path(file_path_str): the empty string is the current directory.
PathOf(file_path_str) == IF file_path_str = <<>> THEN <<".">> ELSE file_path_str

\* Outcomes of mkdir + write_text: opening a directory for writing always
\* raises (IsADirectoryError); any other path may be written or may fail.
FsOutcomes(path) == IF path = <<".">> THEN {FALSE} ELSE BOOLEAN

-----------------------------------------------------------------------------
(* Inputs: the environment and what the remote model may answer *)

\* os.getenv: None when unset, else the string; "v" is any non-empty value.
EnvValues == {"<None>", "", "v"}

Paths == {<<"a/b.txt">>, <<"c.txt">>}

\* "# FILE_PATH: <path>" and "<!-- FILE_PATH: <path> -->"
HashDecl(path) == <<"#", SP, "FILE_PATH:", SP>> \o path
HtmlDecl(path) == <<"<!--", SP, "FILE_PATH:", SP>> \o path \o <<SP, "-->">>

PlainBody == <<"hello">>
FencedBody == <<FENCE, "text", NL, "world", NL, FENCE>>

\* Blocks that declare a path, as the prompt of lines 144-148 asks for.
DeclaredBlocks ==
    {d \o <<NL>> \o b \o <<NL>> :
        d \in {HashDecl(p) : p \in Paths} \cup {HtmlDecl(p) : p \in Paths},
        b \in {PlainBody, FencedBody}}

\* Blank blocks and blocks without a declaration at the start of a line.
OtherBlocks ==
    { <<NL>>,
      <<"x", NL>>,
      <<"x", SP>> \o HashDecl(<<"c.txt">>) }

Blocks == DeclaredBlocks \cup OtherBlocks

RECURSIVE Joined(_)
\* The texts made of exactly n blocks joined by the delimiter.
Joined(n) ==
    IF n = 1 THEN Blocks
    ELSE {t \o <<FILE_SEPARATOR>> \o b : t \in Joined(n - 1), b \in Blocks}

\* The response texts: the empty text and 1..MaxBlocks joined blocks.
Responses == {<<>>} \cup UNION {Joined(n) : n \in 1..MaxBlocks}

\* What session.post returns or raises (a network error, a non-2xx status
\* caught by raise_for_status, a body response.json() cannot decode), and the
\* shape of the JSON body.
Reply(status, candidates, parts, hasText, text) ==
    [status |-> status, candidates |-> candidates, parts |-> parts,
     hasText |-> hasText, text |-> text]

Replies ==
    { Reply("network_error", "missing", "missing", FALSE, <<>>),
      Reply("http_error", "missing", "missing", FALSE, <<>>),
      Reply("bad_json", "missing", "missing", FALSE, <<>>),
      Reply("ok", "missing", "missing", FALSE, <<>>),
      Reply("ok", "empty", "missing", FALSE, <<>>),
      Reply("ok", "present", "missing", FALSE, <<>>),
      Reply("ok", "present", "empty", FALSE, <<>>),
      Reply("ok", "present", "present", FALSE, <<>>) }
    \cup {Reply("ok", "present", "present", TRUE, t) : t \in Responses}

-----------------------------------------------------------------------------
(* The process *)

Init ==
    /\ pc = "main"
    /\ round = 1
    /\ env \in [ISSUE_TITLE : EnvValues, ISSUE_BODY : EnvValues,
                GCP_PROJECT_ID : EnvValues]
    /\ session = "none"
    /\ posts = 0
    /\ prompts = <<>>
    /\ replies = <<>>
    /\ response_text = <<>>
    /\ generated_code_response = <<>>
    /\ file_blocks = <<>>
    /\ idx = 1
    /\ files = NoFiles
    /\ attempts = <<>>
    /\ warnings = 0
    /\ events = <<>>
    /\ exitStatus = "none"
    /\ successPrinted = FALSE

\* sys.exit(code)
Exit(code) == pc' = "exited" /\ exitStatus' = code

\* Python's "not x" for a value of os.getenv.
Not(v) == v \in {"<None>", ""}

\* The check of line 122 without its third operand.
EnvIncomplete_NoProject == Not(env.ISSUE_TITLE) \/ Not(env.ISSUE_BODY)

\* The condition of line 122.
EnvIncomplete ==
    Not(env.ISSUE_TITLE) \/ Not(env.ISSUE_BODY) \/ Not(env.GCP_PROJECT_ID)

\* main, lines 122-124.
MainCheckEnv ==
    /\ pc = "main"
    /\ IF EnvIncomplete THEN Exit("1")
       ELSE pc' = "auth" /\ UNCHANGED exitStatus
    /\ UNCHANGED <<round, env, session, posts, prompts, replies, response_text,
                   generated_code_response, file_blocks, idx, files, attempts,
                   warnings, events, successPrinted>>

\* get_gcp_auth_session, called at line 127: the credentials are found, or
\* DefaultCredentialsError ends the process.
GetGcpAuthSession ==
    /\ pc = "auth"
    /\ \E found \in BOOLEAN :
        IF found
        THEN session' = "acquired" /\ pc' = "call" /\ UNCHANGED exitStatus
        ELSE session' = "failed" /\ Exit("1")
    /\ UNCHANGED <<round, env, posts, prompts, replies, response_text,
                   generated_code_response, file_blocks, idx, files, attempts,
                   warnings, events, successPrinted>>

\* The prompt main builds for the round (lines 131-149 and 157-170).
Prompt ==
    IF round = 1
    THEN [kind |-> "code_gen", title |-> env.ISSUE_TITLE,
          body |-> env.ISSUE_BODY, code |-> <<>>]
    ELSE [kind |-> "test_gen", title |-> "", body |-> "",
          code |-> generated_code_response]

\* call_llm raises inside its try: (lines 48-60).
CallRaises(reply) ==
    \/ reply.status # "ok"
    \/ reply.candidates \in {"missing", "empty"}
    \/ reply.parts \in {"missing", "empty"}

\* parts[0].get('text', '')
TextOf(reply) == IF reply.hasText THEN reply.text ELSE <<>>

\* The except clauses print and return '' instead of ending the process.
CallFailStep_Returns ==
    /\ response_text' = <<>>
    /\ generated_code_response' = IF round = 1 THEN <<>> ELSE generated_code_response
    /\ pc' = "parse"
    /\ UNCHANGED exitStatus

\* call_llm, lines 65-73: both except clauses end the process.
CallFailStep ==
    /\ Exit("1")
    /\ UNCHANGED <<response_text, generated_code_response>>

\* call_llm (lines 44-73) as main calls it at lines 151 and 172, up to the
\* call of parse_and_write_files that follows.
CallLlm ==
    /\ pc = "call"
    /\ \E reply \in Replies :
        /\ posts' = posts + 1
        /\ prompts' = Append(prompts, Prompt)
        /\ replies' = Append(replies, reply)
        /\ events' = Append(events, "call_llm")
        /\ IF CallRaises(reply) THEN CallFailStep
           ELSE /\ response_text' = TextOf(reply)
                /\ generated_code_response' =
                       IF round = 1 THEN TextOf(reply)
                       ELSE generated_code_response
                /\ pc' = "parse"
                /\ UNCHANGED exitStatus
    /\ UNCHANGED <<round, env, session, file_blocks, idx, files, attempts,
                   warnings, successPrinted>>

\* parse_and_write_files, lines 83-84.
ParseStart ==
    /\ pc = "parse"
    /\ file_blocks' = Split(response_text)
    /\ idx' = 1
    /\ events' = Append(events, "parse_and_write_files")
    /\ pc' = "blocks"
    /\ UNCHANGED <<round, env, session, posts, prompts, replies, response_text,
                   generated_code_response, files, attempts, warnings,
                   exitStatus, successPrinted>>

\* Lines 87-88: a blank block.
BlankStep ==
    /\ idx' = idx + 1
    /\ UNCHANGED <<pc, exitStatus, files, attempts, warnings>>

\* The warning followed by sys.exit(1) instead of continue.
NoMatchStep_Fatal ==
    /\ warnings' = warnings + 1
    /\ Exit("1")
    /\ UNCHANGED <<idx, files, attempts>>

\* Lines 92-94: no match, a warning, continue.
NoMatchStep ==
    /\ warnings' = warnings + 1
    /\ idx' = idx + 1
    /\ UNCHANGED <<pc, exitStatus, files, attempts>>

\* What the try: of lines 108-112 is about to do for a block.
Attempt(block, ok) ==
    [block |-> block, path |-> FilePathStr(block), content |-> Content(block),
     ok |-> ok]

\* Lines 109-112: parents made, the file written (an existing one replaced).
WriteOkStep(block) ==
    LET path == PathOf(FilePathStr(block))
    IN  /\ files' = [p \in DOMAIN files \cup {path} |->
                        IF p = path THEN Content(block) ELSE files[p]]
        /\ attempts' = Append(attempts, Attempt(block, TRUE))
        /\ idx' = idx + 1
        /\ UNCHANGED <<pc, exitStatus, warnings>>

\* The except clause prints and goes on with the next block.
WriteFailStep_Continue(block) ==
    /\ attempts' = Append(attempts, Attempt(block, FALSE))
    /\ idx' = idx + 1
    /\ UNCHANGED <<pc, exitStatus, files, warnings>>

\* Lines 114-116: any exception ends the process.
WriteFailStep(block) ==
    /\ attempts' = Append(attempts, Attempt(block, FALSE))
    /\ Exit("1")
    /\ UNCHANGED <<idx, files, warnings>>

\* One iteration of the for loop of lines 86-116.
ProcessBlock ==
    /\ pc = "blocks"
    /\ idx <= Len(file_blocks)
    /\ LET block == file_blocks[idx]
       IN  IF Strip(block) = <<>> THEN BlankStep
           ELSE IF ~Search(block).ok THEN NoMatchStep
           ELSE \E ok \in FsOutcomes(PathOf(FilePathStr(block))) :
                    IF ok THEN WriteOkStep(block) ELSE WriteFailStep(block)
    /\ UNCHANGED <<round, env, session, posts, prompts, replies, response_text,
                   generated_code_response, file_blocks, events,
                   successPrinted>>

\* main without its second round: success is printed after the first.
ParseReturn_OneRound ==
    /\ pc = "blocks"
    /\ idx > Len(file_blocks)
    /\ successPrinted' = TRUE
    /\ events' = Append(events, "success")
    /\ Exit("0")
    /\ UNCHANGED <<round, env, session, posts, prompts, replies, response_text,
                   generated_code_response, file_blocks, idx, files, attempts,
                   warnings>>

\* A round that wrote nothing treated as a failure.
ParseReturn_RequiresFiles ==
    /\ pc = "blocks"
    /\ idx > Len(file_blocks)
    /\ IF attempts = <<>>
       THEN Exit("1") /\ UNCHANGED <<round, successPrinted, events>>
       ELSE IF round = 1
       THEN /\ round' = 2
            /\ pc' = "call"
            /\ UNCHANGED <<exitStatus, successPrinted, events>>
       ELSE /\ successPrinted' = TRUE
            /\ events' = Append(events, "success")
            /\ Exit("0")
            /\ UNCHANGED round
    /\ UNCHANGED <<env, session, posts, prompts, replies, response_text,
                   generated_code_response, file_blocks, idx, files, attempts,
                   warnings>>

\* parse_and_write_files returns to main: lines 153-157 after the first
\* round, lines 174-175 and the end of the script after the second.
ParseReturn ==
    /\ pc = "blocks"
    /\ idx > Len(file_blocks)
    /\ IF round = 1
       THEN /\ round' = 2
            /\ pc' = "call"
            /\ UNCHANGED <<exitStatus, successPrinted, events>>
       ELSE /\ successPrinted' = TRUE
            /\ events' = Append(events, "success")
            /\ Exit("0")
            /\ UNCHANGED round
    /\ UNCHANGED <<env, session, posts, prompts, replies, response_text,
                   generated_code_response, file_blocks, idx, files, attempts,
                   warnings>>

Next ==
    \/ MainCheckEnv
    \/ GetGcpAuthSession
    \/ CallLlm
    \/ ParseStart
    \/ ProcessBlock
    \/ ParseReturn

Spec == Init /\ [][Next]_vars

-----------------------------------------------------------------------------
(* The response format the prompt of lines 144-148 asks for, as the claims  *)
(* read it: a block is a declaration line followed by the file's content.   *)

\* The first line of a block, without its newline, and what follows it.
FirstLine(b) == IF Find(b, NL) = -1 THEN b ELSE SubSeq(b, 1, Find(b, NL))
AfterFirstLine(b) == IF Find(b, NL) = -1 THEN <<>> ELSE SliceFrom(b, Find(b, NL) + 1)

\* The block starts with "# FILE_PATH: p" or "<!-- FILE_PATH: p -->".
ValidDecl(b) == \E p \in Paths : FirstLine(b) \in {HashDecl(p), HtmlDecl(p)}
DeclaredPath(b) == CHOOSE p \in Paths : FirstLine(b) \in {HashDecl(p), HtmlDecl(p)}

\* The content is wrapped as: fence and language tag, newline, ABC, newline, fence.
IsFenced(c) ==
    /\ Len(c) >= 3 /\ Head(c) = FENCE /\ c[Len(c)] = FENCE
    /\ Find(c, NL) # -1
Unfenced(c) == Strip(SubSeq(c, Find(c, NL) + 2, Len(c) - 1))

\* The block's content: trimmed, an enclosing fence removed.
DeclaredContent(b) ==
    IF IsFenced(Strip(AfterFirstLine(b)))
    THEN Unfenced(Strip(AfterFirstLine(b)))
    ELSE Strip(AfterFirstLine(b))

\* No line of the block begins (after whitespace) with a comment marker that
\* is followed (after whitespace) by the label.
NoDeclaration(b) ==
    ~ \E i \in 1..Len(b) :
        /\ b[i] = "FILE_PATH:"
        /\ \E j \in 1..(i - 1) :
            /\ b[j] \in {"#", "<!--"}
            /\ \A k \in (j + 1)..(i - 1) : IsSpace(b[k])
            /\ \E p \in 1..j :
                /\ LineStart(b, p)
                /\ \A k \in p..(j - 1) : IsSpace(b[k])

\* The text is N blocks, each a valid declaration with content, the paths
\* pairwise distinct.
WellFormed(t) ==
    /\ \A i \in DOMAIN Split(t) :
           ValidDecl(Split(t)[i]) /\ DeclaredContent(Split(t)[i]) # <<>>
    /\ \A i, j \in DOMAIN Split(t) :
           i # j => DeclaredPath(Split(t)[i]) # DeclaredPath(Split(t)[j])

\* The files a well-formed text asks for.
DeclaredFiles(t) ==
    [p \in {DeclaredPath(Split(t)[i]) : i \in DOMAIN Split(t)} |->
        DeclaredContent(
            Split(t)[CHOOSE i \in DOMAIN Split(t) : DeclaredPath(Split(t)[i]) = p])]

\* parse_and_write_files is running on response_text, or was the last call
\* main made before the process ended.
InParse == events # <<>> /\ events[Len(events)] = "parse_and_write_files"

\* The for loop has run through every block.
LoopDone == pc = "blocks" /\ idx > Len(file_blocks)

\* The block the for loop is at.
CurrentBlock == file_blocks[idx]

\* The last block that reached the write.
LastAttempt == attempts[Len(attempts)]

-----------------------------------------------------------------------------
(* Claims *)

\* C1: a response of N blocks, each starting with a valid path declaration,
\* the paths pairwise distinct, each followed by content: the call returns
\* normally and exactly N files are written, each holding its block's content
\* trimmed and unfenced.
C1_WellFormedResponseWritten ==
    (InParse /\ WellFormed(response_text)) =>
        /\ exitStatus = "none"
        /\ LoopDone => files = DeclaredFiles(response_text)

\* C2: the path captured from a declaration (file_path_str) is the declared
\* path, trimmed and without the trailing "-->"; the HTML-comment form and the
\* "#" form yield the same path.
C2_CapturedPathIsDeclaredPath ==
    \A k \in DOMAIN attempts :
        ValidDecl(attempts[k].block) =>
            attempts[k].path = DeclaredPath(attempts[k].block)

\* C3: a block of a path declaration followed by an opening fence line with
\* a language tag, ABC, and a closing fence is written as a file whose content
\* is exactly ABC.
C3_FencedRoundTrip ==
    \A k \in DOMAIN attempts :
        (ValidDecl(attempts[k].block)
            /\ IsFenced(Strip(AfterFirstLine(attempts[k].block)))) =>
            /\ attempts[k].ok
            /\ attempts[k].content = Unfenced(Strip(AfterFirstLine(attempts[k].block)))

\* C4: a non-blank block in which no path declaration is found writes no
\* file, prints one warning, does not end the process, and the loop goes on
\* to the next block.
C4_NoDeclarationSkipped ==
    [][ (pc = "blocks" /\ idx <= Len(file_blocks)
            /\ Strip(CurrentBlock) # <<>> /\ NoDeclaration(CurrentBlock)) =>
        (/\ files' = files
         /\ attempts' = attempts
         /\ warnings' = warnings + 1
         /\ exitStatus' = "none"
         /\ pc' = "blocks"
         /\ file_blocks' = file_blocks
         /\ idx' = idx + 1) ]_vars

\* C4 witness: a block was skipped with a warning and the block after it
\* reached the write.
C4_Witness ==
    /\ Len(file_blocks) = 2
    /\ Strip(file_blocks[1]) # <<>> /\ NoDeclaration(file_blocks[1])
    /\ warnings = 1
    /\ Len(attempts) = 1 /\ attempts[1].block = file_blocks[2]

\* C5: with ISSUE_TITLE, ISSUE_BODY or GCP_PROJECT_ID unset or empty, the
\* process exits with status 1 and never acquires credentials, posts to the
\* model or writes a file.
C5_MissingEnvIsFatal ==
    (\E k \in DOMAIN env : env[k] \in {"<None>", ""}) =>
        /\ pc \in {"main", "exited"}
        /\ pc = "exited" => exitStatus = "1"
        /\ exitStatus # "0"
        /\ session = "none"
        /\ posts = 0
        /\ attempts = <<>>
        /\ files = NoFiles

\* C5 witness: only GCP_PROJECT_ID is empty and the process has exited.
C5_Witness ==
    /\ env = [ISSUE_TITLE |-> "v", ISSUE_BODY |-> "v", GCP_PROJECT_ID |-> ""]
    /\ pc = "exited"
    /\ exitStatus = "1"

\* The first call failed: a transport failure, an undecodable body, or no
\* candidates, or no parts.
FirstCallFailed ==
    /\ replies # <<>>
    /\ \/ replies[1].status \in {"network_error", "http_error", "bad_json"}
       \/ replies[1].candidates # "present"
       \/ replies[1].parts # "present"

\* C6: when the first call_llm fails (transport failure, or a missing or
\* empty candidates or parts list), the process exits with status 1, no file
\* is ever written and no second request is issued.
C6_FirstCallFailureIsFatal ==
    FirstCallFailed =>
        /\ pc = "exited"
        /\ exitStatus = "1"
        /\ posts = 1
        /\ events = <<"call_llm">>
        /\ attempts = <<>>
        /\ files = NoFiles

\* C6 witness: the first POST came back with a non-2xx status.
C6_Witness ==
    /\ replies = <<Reply("http_error", "missing", "missing", FALSE, <<>>)>>
    /\ pc = "exited"

\* C7: a filesystem error at block k ends the process with status 1 at once:
\* no later block is processed, no further request is made, and the files
\* written before stay as they are; an ended process takes no further step.
C7_WriteErrorIsFatal ==
    [][ /\ pc # "exited"
        /\ (Len(attempts') = Len(attempts) + 1 /\ ~attempts'[Len(attempts')].ok) =>
             (/\ pc' = "exited"
              /\ exitStatus' = "1"
              /\ files' = files
              /\ posts' = posts
              /\ idx' = idx
              /\ events' = events) ]_vars

\* C7 witness: the write of the first of two blocks failed in round 1; the
\* second block was never reached and no second request was made.
C7_Witness ==
    /\ pc = "exited" /\ exitStatus = "1"
    /\ attempts # <<>> /\ ~LastAttempt.ok
    /\ Len(file_blocks) = 2 /\ idx = 1
    /\ posts = 1

\* The calls of a complete run of main.
MainOrder ==
    <<"call_llm", "parse_and_write_files", "call_llm", "parse_and_write_files",
      "success">>

\* C8: main calls the model, materializes, calls the model with a prompt
\* that embeds the first response, materializes; one POST per call_llm, at
\* most two; success is printed and status 0 returned only after all four;
\* every other ended run has status 1.
C8_FixedOrder ==
    /\ Len(events) <= Len(MainOrder)
    /\ events = SubSeq(MainOrder, 1, Len(events))
    /\ posts = Cardinality({i \in DOMAIN events : events[i] = "call_llm"})
    /\ posts <= 2
    /\ Len(prompts) = posts /\ Len(replies) = posts
    /\ Len(prompts) = 2 =>
           /\ prompts[1].kind = "code_gen" /\ prompts[2].kind = "test_gen"
           /\ replies[1].hasText => prompts[2].code = replies[1].text
           /\ ~replies[1].hasText => prompts[2].code = <<>>
    /\ (successPrinted \/ exitStatus = "0") =>
           /\ events = MainOrder
           /\ successPrinted /\ exitStatus = "0" /\ pc = "exited"
           /\ idx > Len(file_blocks)
    /\ (pc = "exited" /\ events # MainOrder) => exitStatus = "1"
    /\ (pc = "exited") <=> (exitStatus # "none")

\* C8 witness: a complete run whose second prompt embeds a non-empty first
\* response.
C8_Witness ==
    /\ exitStatus = "0"
    /\ posts = 2
    /\ prompts[2].code # <<>>
    /\ warnings >= 2

\* C9: blocks are processed in order without deduplication: when two blocks
\* of a response declare the same path, both are written and after the call
\* the file holds the content of the later one.
C9_LaterBlockOverwrites ==
    \A i, j \in DOMAIN file_blocks :
        (/\ InParse /\ (LoopDone \/ pc = "exited")
         /\ i < j
         /\ ValidDecl(file_blocks[i]) /\ ValidDecl(file_blocks[j])
         /\ DeclaredPath(file_blocks[i]) = DeclaredPath(file_blocks[j])
         /\ \A k \in (j + 1)..Len(file_blocks) :
                ValidDecl(file_blocks[k]) =>
                    DeclaredPath(file_blocks[k]) # DeclaredPath(file_blocks[j])) =>
            /\ exitStatus = "none"
            /\ DeclaredPath(file_blocks[j]) \in DOMAIN files
            /\ files[DeclaredPath(file_blocks[j])] = DeclaredContent(file_blocks[j])

\* The first response leads to no write: its text is absent, or each of its
\* blocks is blank or has no declaration.
FirstRoundWritesNothing ==
    /\ replies # <<>>
    /\ ~FirstCallFailed
    /\ \/ ~replies[1].hasText
       \/ \A i \in DOMAIN Split(replies[1].text) :
              \/ Strip(Split(replies[1].text)[i]) = <<>>
              \/ NoDeclaration(Split(replies[1].text)[i])

\* C10: a first round that writes no file is not an error: the process does
\* not end in round 1, nothing reaches the write, and the second model call
\* is issued before the process can end.
C10_EmptyRoundIsNotAnError ==
    FirstRoundWritesNothing =>
        /\ round = 1 => (exitStatus = "none" /\ attempts = <<>> /\ files = NoFiles)
        /\ pc = "exited" => posts = 2

\* C10 witness: the first response had no text field, and the run ended with
\* the success line, status 0 and no file written in either round.
C10_Witness ==
    /\ replies # <<>> /\ ~FirstCallFailed /\ ~replies[1].hasText
    /\ successPrinted /\ exitStatus = "0"
    /\ posts = 2
    /\ attempts = <<>> /\ files = NoFiles

====
